---- MODULE Spec2Model ----
(***************************************************************************)
(* Model of metric.py (class Measurement): the batched confusion matrix    *)
(* and the segmentation metrics read from it.                              *)
(*                                                                         *)
(* Tensors are nested sequences; class axes are indexed 0..C-1 as in the   *)
(* code, batch and pixel axes 1..N, 1..H, 1..W.  A call's outcome is a     *)
(* record [exc, calls, val]: the exception that left the call ("none" when *)
(* it returned), the methods entered in order, and the returned value.     *)
(*                                                                         *)
(* Floating-point results are modelled exactly as values q - d, where q is *)
(* a reduced rational num/den and d is the shortfall a positive stabilizer *)
(* (1e-8 or 1e-7) in a denominator causes: d = 0 when below is FALSE and   *)
(* 0 < d < 1e-6 when below is TRUE.  "nan" and "inf" are the non-finite    *)
(* values numpy produces for 0/0 and x/0 (a warning, not an exception).    *)
(***************************************************************************)
EXTENDS Integers, Sequences, FiniteSets

VARIABLES num_classes, ignore_idx, pred, target, conf_mat, op, out

vars == <<num_classes, ignore_idx, pred, target, conf_mat, op, out>>

\* ---------------------------------------------------------------- bounds
MaxN == 2
MaxSide == 2
MaxPix == 2
MaxClasses == 3
MaxCount == 2

\* ------------------------------------------------------- program constants
\* 1/1e-8 (miou, no_bg_miou, f1score) and 1/1e-7 (precision)
InvEps8 == 100000000
InvEps7 == 10000000

\* ------------------------------------------------------------- arithmetic
RECURSIVE GCD(_, _)
GCD(a, b) == IF b = 0 THEN a ELSE GCD(b, a % b)

Fin(n, d, b) ==
    LET g == GCD(n, d)
    IN  IF n = 0 THEN [kind |-> "fin", num |-> 0, den |-> 1, below |-> b]
        ELSE [kind |-> "fin", num |-> n \div g, den |-> d \div g, below |-> b]

NaN == [kind |-> "nan", num |-> 0, den |-> 1, below |-> FALSE]
Inf == [kind |-> "inf", num |-> 0, den |-> 1, below |-> FALSE]

\* mutant of DivInt: a zero denominator guarded to give 0
DivIntGuarded(a, b) ==
    IF b = 0 THEN Fin(0, 1, FALSE) ELSE Fin(a, b, FALSE)

\* int / int on numpy arrays: x/0 is nan (x = 0) or inf, no exception
DivInt(a, b) ==
    IF b = 0 THEN (IF a = 0 THEN NaN ELSE Inf) ELSE Fin(a, b, FALSE)

\* a / (b + eps) with eps = 1/inv > 0, a and b non-negative integers
DivEps(a, b, inv) ==
    IF b = 0 THEN Fin(a * inv, 1, FALSE) ELSE Fin(a, b, a > 0)

RECURSIVE SumNum(_, _)
\* numerator of the sum of the rationals xs[1..k] over the common denominator
SumNum(xs, k) ==
    IF k = 0 THEN <<0, 1>>
    ELSE LET s == SumNum(xs, k - 1)
             n == s[1] * xs[k].den + xs[k].num * s[2]
             d == s[2] * xs[k].den
             g == GCD(n, d)
         IN  IF n = 0 THEN <<0, 1>> ELSE <<n \div g, d \div g>>

\* the mean of a non-empty array xs of evaluated values
MeanOf(xs) ==
    IF \E k \in 1..Len(xs) : xs[k].kind = "nan" THEN NaN
    ELSE IF \E k \in 1..Len(xs) : xs[k].kind = "inf" THEN Inf
    ELSE Fin(SumNum(xs, Len(xs))[1], SumNum(xs, Len(xs))[2] * Len(xs),
             \E k \in 1..Len(xs) : xs[k].below)

\* np.mean of a 1-d float array; the mean of an empty array is nan
\* (the array is bound through a singleton set so that it is computed once)
Mean(xs) == CHOOSE r \in {IF Len(v) = 0 THEN NaN ELSE MeanOf(v) : v \in {xs}} : TRUE

IsFinite(x) == x.kind = "fin"
IsZero(x) == x.kind = "fin" /\ x.num = 0 /\ ~x.below
\* 0 <= x <= 1
InUnit(x) == x.kind = "fin" /\ 0 <= x.num /\ x.num <= x.den /\ (x.below => x.num > 0)

\* ------------------------------------------------------------ tensor views
Batch(t) == Len(t)
Height(t) == Len(t[1])
Width(t) == Len(t[1][1])

\* np.reshape(t, (N, -1)) of an (N, H, W) tensor: row-major
Flatten(t) ==
    [n \in 1..Len(t) |->
        [k \in 1..(Height(t) * Width(t)) |->
            t[n][((k - 1) \div Width(t)) + 1][((k - 1) % Width(t)) + 1]]]

\* ndarray.argmax over a score vector indexed 0..C-1: first index of the maximum
ArgMax(v, C) ==
    CHOOSE j \in 0..(C - 1) :
        /\ \A c \in 0..(C - 1) : v[c] <= v[j]
        /\ \A c \in 0..(j - 1) : v[c] < v[j]

\* pred.argmax(axis=1): (N, C, H, W) -> (N, H, W)
PredLabel(p) ==
    [n \in 1..Len(p) |->
        [h \in 1..Len(p[n][0]) |->
            [w \in 1..Len(p[n][0][h]) |->
                ArgMax([c \in DOMAIN p[n] |-> p[n][c][h][w]], Cardinality(DOMAIN p[n]))]]]

Ok(calls, v) == [exc |-> "none", calls |-> calls, val |-> v]
Raise(e, calls) == [exc |-> e, calls |-> calls, val |-> <<>>]

\* ------------------------------------------------ _make_confusion_matrix
Max(a, b) == IF a >= b THEN a ELSE b

RECURSIVE MaxOf(_, _)
MaxOf(x, k) == IF k = 0 THEN -1 ELSE Max(x[k], MaxOf(x, k - 1))

\* mutant of BinCount: the bins shifted by one, so that code 0 is never counted
BinCountShifted(x, minlength) ==
    [b \in 1..Max(minlength, MaxOf(x, Len(x)) + 1) |->
        Cardinality({k \in 1..Len(x) : x[k] = b})]

\* np.bincount(x, minlength): bins 0..max(minlength, max(x)+1)-1, bin b at index b+1
BinCount(x, minlength) ==
    [b \in 1..Max(minlength, MaxOf(x, Len(x)) + 1) |->
        Cardinality({k \in 1..Len(x) : x[k] = b - 1})]

\* mutant of Cats: the code built as num_classes * pred + target
CatsPredMajor(C, pred_1d, target_1d) ==
    [n \in 1..Len(target_1d) |->
        [k \in 1..Len(target_1d[n]) |-> C * pred_1d[n][k] + target_1d[n][k]]]

\* cats = num_classes * target_1d + pred_1d
Cats(C, pred_1d, target_1d) ==
    [n \in 1..Len(target_1d) |->
        [k \in 1..Len(target_1d[n]) |-> C * target_1d[n][k] + pred_1d[n][k]]]

\* np.apply_along_axis(lambda x: np.bincount(x, minlength=C**2), -1, cats)
HistRows(cats, C) == [n \in 1..Len(cats) |-> BinCount(cats[n], C * C)]

\* np.reshape(rows, (N, C, C)); [n][i][j] is bin C*i + j of row n
Reshape(rows, N, C) ==
    [n \in 1..N |-> [i \in 0..(C - 1) |-> [j \in 0..(C - 1) |-> rows[n][C * i + j + 1]]]]

\* the histogram step: np.bincount rejects a negative value, np.apply_along_axis
\* needs rows of one length, np.reshape needs N * C * C elements
Histogram(cats, rows, N, C) ==
    IF \E n \in 1..N : \E k \in 1..Len(cats[n]) : cats[n][k] < 0
    THEN Raise("ValueError", <<"_make_confusion_matrix">>)
    ELSE IF \/ \E n \in 1..N : Len(rows[n]) # Len(rows[1])
            \/ N * Len(rows[1]) # N * C * C
    THEN Raise("ValueError", <<"_make_confusion_matrix">>)
    ELSE Ok(<<"_make_confusion_matrix">>, Reshape(rows, N, C))

CatsOf(C, pred_label, t) == Cats(C, Flatten(pred_label), Flatten(t))

\* mutant of make_confusion_matrix: no batch-size assertion, so that a mismatch
\* surfaces only as numpy's shape error
make_confusion_matrix_noassert(C, p, t) ==
    IF Batch(p) # Batch(t)
    THEN Raise("ValueError", <<"_make_confusion_matrix">>)
    ELSE CHOOSE r \in {Histogram(cats[1], cats[2], Batch(p), C) :
                  cats \in {<<c, HistRows(c, C)>> : c \in {CatsOf(C, PredLabel(p), t)}}} : TRUE

make_confusion_matrix(C, p, t) ==
    IF Batch(p) # Batch(t)
    THEN Raise("AssertionError", <<"_make_confusion_matrix">>)
    ELSE CHOOSE r \in {Histogram(cats[1], cats[2], Batch(p), C) :
                  cats \in {<<c, HistRows(c, C)>> : c \in {CatsOf(C, PredLabel(p), t)}}} : TRUE

\* ----------------------------------------------------------------- readers
Dim(cm) == Cardinality(DOMAIN cm[1])

RECURSIVE SumTo(_, _)
\* f[0] + ... + f[k]
SumTo(f, k) == IF k < 0 THEN 0 ELSE f[k] + SumTo(f, k - 1)

\* np.sum(conf_mat, -2)[n][j]: pixels predicted as j (TP+FP)
SumCol(cm, n, j) == SumTo([i \in DOMAIN cm[n] |-> cm[n][i][j]], Dim(cm) - 1)
\* np.sum(conf_mat, -1)[n][i]: pixels whose true label is i (TP+FN)
SumRow(cm, n, i) == SumTo(cm[n][i], Dim(cm) - 1)

Union(cm, n, i) == SumCol(cm, n, i) + SumRow(cm, n, i) - cm[n][i][i]

\* mutant of no_bg_miou: the average of the IoUs of classes 1 and 2
no_bg_miou_avg(cm) ==
    IF Dim(cm) < 3 THEN Raise("IndexError", <<"no_bg_miou">>)
    ELSE Ok(<<"no_bg_miou">>,
            Mean(<<Mean([n \in 1..Len(cm) |-> DivEps(cm[n][1][1], Union(cm, n, 1), InvEps8)]),
                   Mean([n \in 1..Len(cm) |-> DivEps(cm[n][2][2], Union(cm, n, 2), InvEps8)])>>))

no_bg_miou(cm) ==
    \* conf_mat[:, 2, 2] is out of bounds for fewer than 3 classes
    IF Dim(cm) < 3 THEN Raise("IndexError", <<"no_bg_miou">>)
    ELSE Ok(<<"no_bg_miou">>,
            Mean(<<Mean([n \in 1..Len(cm) |->
                DivEps(cm[n][1][1] + cm[n][2][2],
                       Union(cm, n, 1) + Union(cm, n, 2), InvEps8)])>>))

\* mutant of IouList: the row sum left out of the union
IouListNoRow(C, cm) ==
    [c \in 1..C |->
        Mean([n \in 1..Len(cm) |->
            DivEps(cm[n][c - 1][c - 1],
                   SumCol(cm, n, c - 1) - cm[n][c - 1][c - 1], InvEps8)])]

\* iou_list: per class, the batch mean of TP / (sum_col + sum_row - TP + 1e-8)
IouList(C, cm) ==
    [c \in 1..C |->
        Mean([n \in 1..Len(cm) |->
            DivEps(cm[n][c - 1][c - 1], Union(cm, n, c - 1), InvEps8)])]

\* returns (iou_list, miou)
miou(C, cm) == Ok(<<"miou">>, <<IouList(C, cm), Mean(IouList(C, cm))>>)

\* np.mean(a, axis=-1) of the (C-1, N) array built from a list of rows;
\* an empty list is a 1-d empty array, whose mean is a nan scalar
MeanLastAxis(rows) ==
    IF Len(rows) = 0 THEN <<NaN>> ELSE [i \in 1..Len(rows) |-> Mean(rows[i])]

\* mutant of precision: class 0 averaged in as well
precision_allclasses(C, cm) ==
    Ok(<<"precision">>,
       Mean(MeanLastAxis([i \in 1..C |->
           [n \in 1..Len(cm) |-> DivEps(cm[n][i - 1][i - 1], SumCol(cm, n, i - 1), InvEps7)]])))

precision(C, cm) ==
    Ok(<<"precision">>,
       Mean(MeanLastAxis([i \in 1..(C - 1) |->
           [n \in 1..Len(cm) |-> DivEps(cm[n][i][i], SumCol(cm, n, i), InvEps7)]])))

\* mutant of recall: a stabilizer added to the denominator
recall_stabilized(C, cm) ==
    Ok(<<"recall">>,
       Mean(MeanLastAxis([i \in 1..(C - 1) |->
           [n \in 1..Len(cm) |-> DivEps(cm[n][i][i], SumRow(cm, n, i), InvEps7)]])))

recall(C, cm) ==
    Ok(<<"recall">>,
       Mean(MeanLastAxis([i \in 1..(C - 1) |->
           [n \in 1..Len(cm) |-> DivInt(cm[n][i][i], SumRow(cm, n, i))]])))

\* 2*recall*precision/(recall + precision + 1e-8) on non-negative scalars
f1score(r, p) ==
    IF r.kind # "fin" \/ p.kind # "fin" THEN NaN
    ELSE LET n == 2 * r.num * p.num
             d == r.num * p.den + p.num * r.den
         IN  IF d = 0 THEN Fin(0, 1, FALSE) ELSE Fin(n, d, n > 0)

\* ---------------------------------------------------------------- accuracy
RECURSIVE ConcatRows(_, _)
\* rows[1] \o ... \o rows[k]: the row-major order of a boolean-mask selection
ConcatRows(rows, k) == IF k = 0 THEN <<>> ELSE ConcatRows(rows, k - 1) \o rows[k]

NumEqual(x, y) == Cardinality({k \in 1..Len(x) : x[k] = y[k]})

Keep(ig, pair) == pair[2] # ig[1]

\* mutant of accuracy: the ignore filter applied to each item's row
accuracy_peritem(ig, p, t) ==
    LET pred_1d == Flatten(PredLabel(p))
        target_1d == Flatten(t)
        kept == [n \in 1..Len(pred_1d) |->
                    {k \in 1..Len(pred_1d[n]) : ig = <<>> \/ target_1d[n][k] # ig[1]}]
    IN  Ok(<<"accuracy">>,
           Mean([n \in 1..Len(pred_1d) |->
               DivInt(Cardinality({k \in kept[n] : pred_1d[n][k] = target_1d[n][k]}),
                      Cardinality(kept[n]))]))

accuracy(ig, p, t) ==
    LET pred_1d == Flatten(PredLabel(p))
        target_1d == Flatten(t)
    IN  IF ig # <<>>
        THEN \* pred[np.where(target != ignore_idx)] is one 1-d array over the whole
             \* batch: np.sum(..., axis=-1) is a scalar, shape[-1] its length
             LET pairs == ConcatRows([n \in 1..Len(pred_1d) |->
                              [k \in 1..Len(pred_1d[n]) |->
                                  <<pred_1d[n][k], target_1d[n][k]>>]], Len(pred_1d))
                 kept == SelectSeq(pairs, LAMBDA x : Keep(ig, x))
                 hits == Cardinality({k \in 1..Len(kept) : kept[k][1] = kept[k][2]})
             IN  Ok(<<"accuracy">>, Mean(<<DivInt(hits, Len(kept))>>))
        ELSE Ok(<<"accuracy">>,
                Mean([n \in 1..Len(pred_1d) |->
                    DivInt(NumEqual(pred_1d[n], target_1d[n]), Len(pred_1d[n]))]))

\* ----------------------------------------------------------------- measure
\* mutant of MeasureFrom: precision and recall returned in each other's place
MeasureFromSwapped(cm, C, ig, p, t) ==
    IF cm.exc # "none" THEN Raise(cm.exc, cm.calls)
    ELSE
      LET acc == accuracy(ig, p, t)
          io == miou(C, cm.val)
          cw == no_bg_miou(cm.val)
          c4 == cm.calls \o acc.calls \o io.calls \o cw.calls
      IN  IF cw.exc # "none" THEN Raise(cw.exc, c4)
          ELSE
            LET pr == precision(C, cm.val)
                re == recall(C, cm.val)
            IN  Ok(c4 \o pr.calls \o re.calls \o <<"f1score">>,
                   <<acc.val, io.val[2], io.val[1], re.val, pr.val,
                     f1score(re.val, pr.val), cw.val>>)

\* measure after its first statement, cm being _make_confusion_matrix's outcome
MeasureFrom(cm, C, ig, p, t) ==
    IF cm.exc # "none" THEN Raise(cm.exc, cm.calls)
    ELSE
      LET acc == accuracy(ig, p, t)
          io == miou(C, cm.val)
          cw == no_bg_miou(cm.val)
          c4 == cm.calls \o acc.calls \o io.calls \o cw.calls
      IN  IF cw.exc # "none" THEN Raise(cw.exc, c4)
          ELSE
            LET pr == precision(C, cm.val)
                re == recall(C, cm.val)
            IN  Ok(c4 \o pr.calls \o re.calls \o <<"f1score">>,
                   <<acc.val, io.val[2], io.val[1], pr.val, re.val,
                     f1score(re.val, pr.val), cw.val>>)

measure(C, ig, p, t) ==
    CHOOSE r \in {MeasureFrom(cm, C, ig, p, t) :
                  cm \in {make_confusion_matrix(C, p, t)}} : TRUE

\* --------------------------------------------------------------- the inputs
None == <<>>
Classes(C) == 0..(C - 1)

\* one score vector per arg-max class j: 0 below j, 1 from j on (ties above j)
ScoreVecs(C) == {[c \in Classes(C) |-> IF c >= j THEN 1 ELSE 0] : j \in Classes(C)}

\* labels are class indices, or the ignore label where one is configured
Labels(C, ig) == Classes(C) \cup {ig[k] : k \in 1..Len(ig)}

\* the (N, C, H, W) score tensor whose pixel (n, h, w) carries the vector sv[n][h][w]
Scores(sv, C) ==
    [n \in 1..Len(sv) |-> [c \in Classes(C) |->
        [h \in 1..Len(sv[n]) |-> [w \in 1..Len(sv[n][h]) |-> sv[n][h][w][c]]]]]

Idle == [exc |-> "none", calls |-> <<>>, val |-> <<>>]

Init ==
    /\ num_classes \in 1..MaxClasses
    /\ ignore_idx \in {None, <<0>>, <<num_classes>>}
    /\ \E Np \in 1..MaxN, Nt \in 1..MaxN, H \in 1..MaxSide, W \in 1..MaxSide :
          /\ H * W <= MaxPix
          /\ \E sv \in [1..Np -> [1..H -> [1..W -> ScoreVecs(num_classes)]]] :
                pred = Scores(sv, num_classes)
          /\ target \in [1..Nt -> [1..H -> [1..W -> Labels(num_classes, ignore_idx)]]]
    /\ conf_mat = <<>>
    /\ op = "none"
    /\ out = Idle

Call(name, result) ==
    /\ op = "none"
    /\ op' = name
    /\ out' = result
    /\ UNCHANGED <<num_classes, ignore_idx, pred, target, conf_mat>>

CallMeasure == Call("measure", measure(num_classes, ignore_idx, pred, target))

CallMakeConfusionMatrix ==
    Call("_make_confusion_matrix", make_confusion_matrix(num_classes, pred, target))

CallAccuracy ==
    /\ Batch(pred) = Batch(target)
    /\ Call("accuracy", accuracy(ignore_idx, pred, target))

Next == CallMeasure \/ CallMakeConfusionMatrix \/ CallAccuracy

Spec == Init /\ [][Next]_vars

\* ------------------------------------- the readers on arbitrary count matrices
Total(m, C) == SumTo([i \in Classes(C) |-> SumTo(m[i], C - 1)], C - 1)

\* the C x C matrices of non-negative counts with at most MaxCount pixels in all
Mats(C) ==
    {m \in [Classes(C) -> [Classes(C) -> 0..MaxCount]] : Total(m, C) <= MaxCount}

InitConf ==
    /\ num_classes \in 1..MaxClasses
    /\ ignore_idx = None
    /\ pred = <<>>
    /\ target = <<>>
    /\ \E N \in 1..MaxN : conf_mat \in [1..N -> Mats(num_classes)]
    /\ op = "none"
    /\ out = Idle

CallMiou == Call("miou", miou(num_classes, conf_mat))

CallNoBgMiou == Call("no_bg_miou", no_bg_miou(conf_mat))

CallPrecision == Call("precision", precision(num_classes, conf_mat))

CallRecall == Call("recall", recall(num_classes, conf_mat))

CallF1score ==
    Call("f1score", Ok(<<"f1score">>, f1score(recall(num_classes, conf_mat).val,
                                              precision(num_classes, conf_mat).val)))

NextConf == CallMiou \/ CallNoBgMiou \/ CallPrecision \/ CallRecall \/ CallF1score

SpecConf == InitConf /\ [][NextConf]_vars

\* ================================================================== claims
\* Vocabulary of the claims, read off the input tensors themselves.
Pixels == (1..Height(target)) \X (1..Width(target))
Matched == Batch(pred) = Batch(target)
LabelsInRange ==
    \A n \in 1..Batch(target) : \A px \in Pixels :
        target[n][px[1]][px[2]] \in Classes(num_classes)

\* class j is the arg-max prediction at pixel px of item n (first maximum)
PredictedAt(n, px, j) ==
    /\ \A c \in Classes(num_classes) : pred[n][c][px[1]][px[2]] <= pred[n][j][px[1]][px[2]]
    /\ \A c \in 0..(j - 1) : pred[n][c][px[1]][px[2]] < pred[n][j][px[1]][px[2]]

\* entry [n][i][j] as the claims define it: pixels of item n with true label i
\* and predicted label j
CountMatrix ==
    [n \in 1..Batch(target) |-> [i \in Classes(num_classes) |-> [j \in Classes(num_classes) |->
        Cardinality({px \in Pixels : target[n][px[1]][px[2]] = i /\ PredictedAt(n, px, j)})]]]

\* the pixels of item n that the ignore filter keeps, and the correct ones among them
KeptPix(n) ==
    {px \in Pixels : ignore_idx = None \/ target[n][px[1]][px[2]] # ignore_idx[1]}
HitPix(n) == {px \in KeptPix(n) : PredictedAt(n, px, target[n][px[1]][px[2]])}

\* mean over the items of (correct pixels of the item) / (kept pixels of the item)
PerItemAccuracy ==
    Mean([n \in 1..Batch(target) |-> DivInt(Cardinality(HitPix(n)), Cardinality(KeptPix(n)))])

\* (correct kept pixels of the batch) / (kept pixels of the batch)
PooledAccuracy ==
    DivInt(Cardinality({x \in (1..Batch(target)) \X Pixels : x[2] \in HitPix(x[1])}),
           Cardinality({x \in (1..Batch(target)) \X Pixels : x[2] \in KeptPix(x[1])}))

\* C1: for matching batch sizes and labels in [0,C), _make_confusion_matrix returns
\* an (N,C,C) matrix whose entry [n][i][j] is the number of pixels of item n with
\* true label i and arg-max predicted label j.
C1_ConfusionMatrixCounts ==
    (op = "_make_confusion_matrix" /\ Matched /\ LabelsInRange) =>
        /\ out.exc = "none"
        /\ Len(out.val) = Batch(pred)
        /\ \A n \in 1..Batch(pred) :
              /\ DOMAIN out.val[n] = Classes(num_classes)
              /\ \A i \in Classes(num_classes) : DOMAIN out.val[n][i] = Classes(num_classes)
        /\ out.val = CountMatrix

\* C1 witness: a two-item batch whose items put pixels in different off-diagonal
\* cells (true 1 predicted 0 in item 1, true 0 predicted 1 in item 2).
C1_Witness ==
    /\ op = "_make_confusion_matrix" /\ Matched /\ LabelsInRange
    /\ num_classes >= 2 /\ Batch(pred) = 2 /\ out.exc = "none"
    /\ out.val[1][1][0] > 0 /\ out.val[1][0][1] = 0
    /\ out.val[2][0][1] > 0 /\ out.val[2][1][0] = 0

\* C2 as stated: for every input of matching batch size, ignore label or not, a
\* matrix is produced and each item's entries sum to H*W.
C2_Original ==
    (op = "_make_confusion_matrix" /\ Matched) =>
        /\ out.exc = "none"
        /\ \A n \in 1..Batch(pred) :
              Total(out.val[n], num_classes) = Height(target) * Width(target)

\* C2 amended: when every label (ignored pixels included) lies in [0,C), each
\* item's entries sum to H*W, no pixel being masked; a label equal to an ignore_idx
\* outside [0,C) makes _make_confusion_matrix raise ValueError instead.
C2_Amended ==
    (op = "_make_confusion_matrix" /\ Matched) =>
        IF LabelsInRange
        THEN /\ out.exc = "none"
             /\ \A n \in 1..Batch(pred) :
                   Total(out.val[n], num_classes) = Height(target) * Width(target)
        ELSE out.exc = "ValueError"

\* C2 witness: ignore_idx is configured, an item consists of ignored pixels only,
\* and all its pixels are counted.
C2_Witness ==
    /\ op = "_make_confusion_matrix" /\ Matched /\ ignore_idx = <<0>>
    /\ Batch(pred) = 2 /\ Height(target) * Width(target) = 2
    /\ KeptPix(1) = {} /\ KeptPix(2) # {}
    /\ out.exc = "none"
    /\ Total(out.val[1], num_classes) = 2 /\ Total(out.val[2], num_classes) = 2

\* C3 as stated: accuracy is the mean over the items of the item's fraction of
\* correct pixels among its kept pixels, with or without ignore_idx.
C3_Original ==
    (op = "accuracy") => out.val = PerItemAccuracy

\* C3 amended: without ignore_idx accuracy is the mean over the items of the item's
\* fraction of correct pixels; with ignore_idx it is the number of correct kept
\* pixels of the whole batch over the number of kept pixels of the whole batch.
C3_Amended ==
    (op = "accuracy") =>
        /\ out.exc = "none"
        /\ out.val = IF ignore_idx = None THEN PerItemAccuracy ELSE PooledAccuracy

\* C3 witness: ignored pixels spread unevenly over two items, and the result is
\* finite and differs from the mean of the per-item fractions.
C3_Witness ==
    /\ op = "accuracy" /\ ignore_idx # None /\ Batch(pred) = 2
    /\ Cardinality(KeptPix(1)) = 1 /\ Cardinality(KeptPix(2)) = 2
    /\ IsFinite(out.val) /\ IsFinite(PerItemAccuracy)
    /\ out.val # PerItemAccuracy

\* C4: with different batch sizes, measure and _make_confusion_matrix fail with an
\* assertion error before anything is computed: only _make_confusion_matrix was
\* entered, no reader ran, nothing is returned.
C4_ShapeMismatchAsserts ==
    (op \in {"measure", "_make_confusion_matrix"} /\ ~Matched) =>
        /\ out.exc = "AssertionError"
        /\ out.calls = <<"_make_confusion_matrix">>
        /\ out.val = <<>>

\* C4 witness: measure was called on a batch of 2 predictions and 1 label map.
C4_Witness ==
    /\ op = "measure" /\ Batch(pred) = 2 /\ Batch(target) = 1
    /\ out.exc = "AssertionError"

\* C5 as stated: for any positive num_classes and inputs meeting the contract,
\* measure returns the 7-tuple with iou_list of length num_classes and f1score
\* computed from the tuple's recall and precision.
C5_Original ==
    (op = "measure" /\ Matched /\ LabelsInRange) =>
        /\ out.exc = "none"
        /\ Len(out.val) = 7
        /\ Len(out.val[3]) = num_classes
        /\ out.val[6] = f1score(out.val[5], out.val[4])

\* C5 amended: the same for num_classes >= 3, the tuple being (accuracy, miou,
\* iou_list, precision, recall, f1score, foreground_miou) in that order; for
\* num_classes 1 or 2 measure raises IndexError in no_bg_miou and returns nothing.
C5_Amended ==
    (op = "measure" /\ Matched /\ LabelsInRange) =>
        IF num_classes >= 3
        THEN /\ out.exc = "none"
             /\ Len(out.val) = 7
             /\ out.val[1] = accuracy(ignore_idx, pred, target).val
             /\ out.val[2] = Mean(out.val[3])
             /\ out.val[3] = IouList(num_classes, CountMatrix)
             /\ Len(out.val[3]) = num_classes
             /\ out.val[4] = precision(num_classes, CountMatrix).val
             /\ out.val[5] = recall(num_classes, CountMatrix).val
             /\ out.val[6] = f1score(out.val[5], out.val[4])
             /\ out.val[7] = no_bg_miou(CountMatrix).val
        ELSE /\ out.exc = "IndexError"
             /\ out.calls = <<"_make_confusion_matrix", "accuracy", "miou", "no_bg_miou">>

\* C5 witness: measure returned for 3 classes with precision and recall finite,
\* non-zero and different, so that their order in the tuple shows.
C5_Witness ==
    /\ op = "measure" /\ num_classes = 3 /\ out.exc = "none"
    /\ IsFinite(out.val[4]) /\ IsFinite(out.val[5])
    /\ ~IsZero(out.val[4]) /\ ~IsZero(out.val[5])
    /\ out.val[4].num * out.val[5].den # out.val[5].num * out.val[4].den

\* some foreground class has no true pixel in any batch item
AbsentForeground ==
    \E i \in 1..(num_classes - 1) :
        \A n \in 1..Batch(target) : \A px \in Pixels : target[n][px[1]][px[2]] # i

\* C6: when a foreground class has no true pixel in any item, recall returns nan
\* without raising, measure returns that nan as recall and as f1score, and miou,
\* iou_list, no_bg_miou and precision of the same call are finite.
C6_RecallNaNPropagates ==
    (op = "measure" /\ Matched /\ LabelsInRange /\ AbsentForeground) =>
        /\ recall(num_classes, CountMatrix) = Ok(<<"recall">>, NaN)
        /\ out.exc = "none" =>
              /\ out.val[5] = NaN
              /\ out.val[6] = NaN
              /\ IsFinite(out.val[2])
              /\ \A c \in 1..Len(out.val[3]) : IsFinite(out.val[3][c])
              /\ IsFinite(out.val[4])
              /\ IsFinite(out.val[7])

\* C6 witness: measure returned on a two-item batch in which class 2 has no true
\* pixel while class 1 has one that is predicted correctly.
C6_Witness ==
    /\ op = "measure" /\ Matched /\ LabelsInRange /\ AbsentForeground
    /\ Batch(pred) = 2 /\ out.exc = "none"
    /\ \E n \in 1..2 : CountMatrix[n][1][1] > 0
    /\ out.val[5] = NaN

\* C7 as stated: with ignore_idx configured, an item all of whose pixels are
\* ignored makes accuracy non-finite, whatever the other items hold.
C7_Original ==
    (op = "accuracy" /\ ignore_idx # None /\ \E n \in 1..Batch(target) : KeptPix(n) = {}) =>
        ~IsFinite(out.val)

\* C7 amended: with ignore_idx configured, accuracy is non-finite (nan) exactly
\* when the filter removes every pixel of every batch item; an emptied item beside
\* an item with kept pixels leaves the result finite.
C7_Amended ==
    (op = "accuracy" /\ ignore_idx # None) =>
        /\ (\A n \in 1..Batch(target) : KeptPix(n) = {}) => out.val = NaN
        /\ (\E n \in 1..Batch(target) : KeptPix(n) # {}) => IsFinite(out.val)

\* C7 witness: every pixel of both items of a batch is ignored and accuracy is nan.
C7_Witness ==
    /\ op = "accuracy" /\ ignore_idx # None /\ Batch(target) = 2
    /\ \A n \in 1..2 : KeptPix(n) = {}
    /\ out.val = NaN

\* C8: for every matrix of non-negative counts, the all-zero one included, miou is
\* finite, every per-item IoU, every element of iou_list and miou lie in [0,1], and
\* TP never exceeds sum_col + sum_row - TP.
C8_MiouInUnit ==
    (op = "miou") =>
        /\ out.exc = "none"
        /\ Len(out.val[1]) = num_classes
        /\ InUnit(out.val[2])
        /\ \A c \in 1..num_classes : InUnit(out.val[1][c])
        /\ \A n \in 1..Len(conf_mat) : \A i \in Classes(num_classes) :
              /\ conf_mat[n][i][i] <= SumCol(conf_mat, n, i) + SumRow(conf_mat, n, i)
                                        - conf_mat[n][i][i]
              /\ InUnit(DivEps(conf_mat[n][i][i],
                               SumCol(conf_mat, n, i) + SumRow(conf_mat, n, i)
                                   - conf_mat[n][i][i], InvEps8))

\* C8 witness: miou ran on a batch holding an all-zero matrix beside an item with
\* a correct and a wrong pixel of one class.
C8_Witness ==
    /\ op = "miou" /\ num_classes = 3 /\ Len(conf_mat) = 2
    /\ Total(conf_mat[1], 3) = 0
    /\ conf_mat[2][1][1] = 1 /\ conf_mat[2][1][2] = 1
    /\ InUnit(out.val[2]) /\ ~IsZero(out.val[2])

\* the foreground union ratio of the batch, and the average of the two class IoUs
UnionRatio ==
    Mean([n \in 1..Len(conf_mat) |->
        DivEps(conf_mat[n][1][1] + conf_mat[n][2][2],
               SumCol(conf_mat, n, 1) + SumRow(conf_mat, n, 1) - conf_mat[n][1][1]
                 + SumCol(conf_mat, n, 2) + SumRow(conf_mat, n, 2) - conf_mat[n][2][2],
               InvEps8)])
AverageIou == Mean(<<IouList(3, conf_mat)[2], IouList(3, conf_mat)[3]>>)

\* C9: for 3 classes no_bg_miou is the batch mean of the union ratio
\* (TP_1+TP_2)/(union_1+union_2+eps); it does not depend on conf_mat[n,0,0], and it
\* is 0 when conf_mat[n,1,1] = conf_mat[n,2,2] = 0 for every n.
C9_NoBgMiouUnion ==
    (op = "no_bg_miou" /\ num_classes = 3) =>
        /\ out.exc = "none"
        /\ out.val = UnionRatio
        /\ \A n \in 1..Len(conf_mat) : \A v \in 0..MaxCount :
              no_bg_miou([conf_mat EXCEPT ![n][0][0] = v]).val = out.val
        /\ (\A n \in 1..Len(conf_mat) : conf_mat[n][1][1] = 0 /\ conf_mat[n][2][2] = 0)
              => IsZero(out.val)

\* C9 witness: a matrix on which the union ratio and the average of the IoUs of
\* classes 1 and 2 are different numbers.
C9_Witness ==
    /\ op = "no_bg_miou" /\ num_classes = 3 /\ out.exc = "none"
    /\ out.val = UnionRatio
    /\ out.val.num * AverageIou.den # AverageIou.num * out.val.den

\* every foreground class has a true pixel in every item and no true positive
ForegroundAllMissed ==
    /\ num_classes >= 2
    /\ \A n \in 1..Len(conf_mat) : \A i \in 1..(num_classes - 1) :
          SumRow(conf_mat, n, i) >= 1 /\ conf_mat[n][i][i] = 0

====
